---- MODULE Spec2Model ----
(***************************************************************************)
(* GhostGuard backend (src/index.js): the license verification handler     *)
(* POST /api/license/verify against the external "licenses" table, with    *)
(* the admin operations that create that table's rows and change their     *)
(* status.                                                                 *)
(*                                                                         *)
(* Every `await` of a handler is a point where other requests run, so a    *)
(* handler is one action per stretch of code between two awaits.  A call   *)
(* to the store takes effect when it resolves.                             *)
(*                                                                         *)
(* JavaScript values: a string field that is null, undefined or "" is      *)
(* falsy and the code tests it by truthiness only, so all three are the    *)
(* empty string here.  An optional timestamp is <<>> (null) or <<t>>.      *)
(* An optional row is <<>> (no row) or <<row>>.  For the license handlers   *)
(* time is counted in days, the unit of create-license's days_valid; for   *)
(* the in-memory objects in milliseconds, the unit of Date.now().          *)
(*                                                                         *)
(* Spec lets requests overlap in every way; SpecSeq is one agent sending   *)
(* each request after the response to the one before.  A request keeps     *)
(* what it was sent, what it read and what it answered after it is done,   *)
(* so the properties can speak of them.                                    *)
(*                                                                         *)
(* The in-memory objects of the process (live status and players, server   *)
(* logs, action queue) have their own handlers and specifications:         *)
(* SpecLive, SpecLogs and SpecQueue.  A response of these handlers is kept *)
(* for the state that follows the step that sent it.                       *)
(***************************************************************************)
EXTENDS Integers, Sequences, FiniteSets, TLC

\* ---------------------------------------------------------------- bounds
\* Requests that arrive in one run when each waits for the response to the one
\* before it.
MaxReqs == 3
\* Requests that arrive in one run when they may overlap.
MaxRace == 2
\* The clock runs from 0 to MaxTime.
MaxTime == 2
\* create-license is called with days_valid in 0..MaxDays.
MaxDays == 1

\* Heartbeat handlers that await their upsert at the same time.
MaxInFlight == 2
\* Times the clock is advanced by Elapse in one run.
MaxTicks == 3
\* Log entries accepted, and dashboard actions sent, in one run of all the
\* in-memory handlers together.
MaxMem == 2
\* Log entries accepted in one run, over all licenses.
MaxLogged == 302
\* Dashboard-action handlers that await their lookup at the same time.
MaxLookups == 2
\* Dashboard actions sent with a token and a type in one run.
MaxActions == 4

\* Dashboard actions sent in one run by the console that fills a queue.
MaxFill == 202
\* Requests sent to the license-creation route in one run.
MaxCreates == 3

\* ------------------------------------------------------- program constants
\* Date.now() - data.last_seen < 30000
TTL == 30000
\* if (serverLogs[license_key].length > 300) serverLogs[license_key].length = 300
LogCap == 300
\* if (actionQueue[license_key].length > 200) actionQueue[license_key].splice(0, 50)
QueueCap == 200
QueueTrim == 50
\* for (let i = 0; i < 5; i++): the inserts one creation request tries
Attempts == 5

\* ------------------------------------------------------------ value sets
Reqs == 1..MaxReqs
\* license keys generateLicenseKey can produce
Keys == {"GG-0001"}
\* license_key of a request body: absent, or some key
BodyKeys == Keys \cup {""}
\* hwid of a request body: absent, or a device id
BodyHwids == {"", "A", "B"}
\* status values an admin can store; only "ACTIVE" lets a license verify
Statuses == {"ACTIVE", "BANNED"}
\* how a call to the external store ends: it resolves with data, resolves
\* with {error}, or rejects (the awaiting code throws)
Outcomes == {"ok", "error", "throw"}

Null == <<>>
Some(x) == <<x>>

\* license keys a game server or a customer row can name; the in-memory
\* objects take any string as a key, whether a license of that key exists or not
Servers == {"GG-0001", "GG-0002"}
\* license_key of a heartbeat or log body: absent, or some key
BodyServers == Servers \cup {""}
HbSlots == 1..MaxInFlight
ActSlots == 1..MaxLookups
CreateSlots == 1..MaxCreates
\* how the insert of a creation request ends: with the row, with a
\* duplicate-key error, with another error, or by rejecting
InsertOutcomes == {"ok", "duplicate", "error", "throw"}

VARIABLES
    env,        \* process.env.LICENSE_SECRET, "" when it is not set
    now,        \* the wall clock (Date.now(), new Date())
    licenses,   \* the external table: license_key -> <<>> or <<row>>
    req,        \* per request: the handler's locals, position and response
    create,     \* per creation request: the loop's locals, position and response
    ticks,      \* how many times the clock has been advanced by Elapse
    serverState,            \* license_key -> <<>> or <<liveness record>>
    livePlayersByLicense,   \* license_key -> <<>> or <<roster>>
    hb,         \* per heartbeat handler awaiting its upsert: its position and key
    lastBeat,   \* history: license_key -> <<>> or <<time and body of its last heartbeat>>
    serverLogs, \* license_key -> <<>> or <<log entries, newest first>>
    logged,     \* history: license_key -> number of log entries accepted for it
    actionQueue,            \* license_key -> <<>> or <<pending actions, oldest first>>
    act,        \* per dashboard-action handler awaiting its lookup: position and body
    pushed,     \* history: number of dashboard actions sent with a token and a type
    appended,   \* history: the payloads of the actions pushed on a queue
    delivered,  \* history: the payloads returned by polls, in the order returned
    lastRes     \* the response the step just taken sent, if it sent one

verifyVars == <<env, licenses, req, create>>
liveVars == <<ticks, serverState, livePlayersByLicense, hb, lastBeat>>
logVars == <<serverLogs, logged>>
queueVars == <<actionQueue, act, pushed, appended, delivered>>
memVars == <<liveVars, logVars, queueVars, lastRes>>
vars == <<env, now, licenses, req, create, memVars>>

\* ------------------------------------------------------------- responses
NoResponse == [http |-> 0, valid |-> FALSE, reason |-> "", payload |-> <<>>, signature |-> <<>>]

Reject(http, reason) ==
    [http |-> http, valid |-> FALSE, reason |-> reason, payload |-> <<>>, signature |-> <<>>]

\* process.env.LICENSE_SECRET || "change_me"
LICENSE_SECRET == IF env # "" THEN env ELSE "change_me"

\* issued_at left at a fixed value instead of the clock's
PayloadFixedIssuedAt(license_key, lic, t) == <<license_key, lic.status, lic.expires_at, 0>>

\* JSON.stringify of the object literal: the fields in the order written
Payload(license_key, lic, t) == <<license_key, lic.status, lic.expires_at, t>>

\* crypto.createHmac("sha256", secret).update(payload).digest("hex"): a
\* keyed function of the exact payload, taken to be collision free
Hmac(secret, payload) == <<"hmac-sha256", secret, payload>>

\* the signature taken over the license key alone instead of the payload
AcceptSignsKeyOnly(license_key, lic, t) ==
    [http |-> 200, valid |-> TRUE, reason |-> "",
     payload |-> Payload(license_key, lic, t),
     signature |-> Hmac(LICENSE_SECRET, <<license_key>>)]

\* res.json({ valid: true, payload, signature })
Accept(license_key, lic, t) ==
    [http |-> 200, valid |-> TRUE, reason |-> "",
     payload |-> Payload(license_key, lic, t),
     signature |-> Hmac(LICENSE_SECRET, Payload(license_key, lic, t))]

\* ------------------------------------------------------ the policy checks
\* (each check of the handler is preceded by the faulty variants of it that the
\* properties below are tested against)
\* the key check left out: every body goes on to the read
MissingKeyUnchecked(license_key) == FALSE

\* !license_key
MissingKey(license_key) == license_key = ""

\* error || !lic, for a read that resolved: `found` is <<>> or <<row>>
NotFound(outcome, found) == outcome = "error" \/ found = Null

\* only a row without any status is turned away
NotActiveLoose(lic) == lic.status = ""

\* lic.status !== "ACTIVE"
NotActive(lic) == lic.status # "ACTIVE"

\* <= for <: a license is refused from the instant it expires
ExpiredInclusive(lic, t) == lic.expires_at # Null /\ lic.expires_at[1] <= t

\* lic.expires_at && new Date(lic.expires_at) < new Date()
Expired(lic, t) == lic.expires_at # Null /\ lic.expires_at[1] < t

\* no HWID check, as in the handler before device binding was added
HwidMismatchIgnored(lic, hwid) == FALSE

\* lic.hwid is set, the request carries an hwid, and they differ
HwidMismatch(lic, hwid) == lic.hwid # "" /\ hwid # "" /\ lic.hwid # hwid

\* no bind, as in the handler before device binding was added
NeedsBindNever(lic, hwid) == FALSE

\* lic.hwid is not set and the request carries one: the handler binds it
NeedsBind(lic, hwid) == lic.hwid = "" /\ hwid # ""

\* the expiry looked at before the status
RejectReasonExpiryFirst(outcome, found, hwid, t) ==
    IF NotFound(outcome, found) THEN "NOT_FOUND"
    ELSE IF Expired(found[1], t) THEN "EXPIRED"
    ELSE IF NotActive(found[1]) THEN found[1].status
    ELSE IF HwidMismatch(found[1], hwid) THEN "HWID_MISMATCH"
    ELSE ""

\* a missing row reported under the same reason as any other failure
RejectReasonUnnamed(outcome, found, hwid, t) ==
    IF NotFound(outcome, found) THEN "INVALID"
    ELSE IF NotActive(found[1]) THEN found[1].status
    ELSE IF Expired(found[1], t) THEN "EXPIRED"
    ELSE IF HwidMismatch(found[1], hwid) THEN "HWID_MISMATCH"
    ELSE ""

\* a fixed reason for every status that is not ACTIVE
RejectReasonFixedStatus(outcome, found, hwid, t) ==
    IF NotFound(outcome, found) THEN "NOT_FOUND"
    ELSE IF NotActive(found[1]) THEN "INACTIVE"
    ELSE IF Expired(found[1], t) THEN "EXPIRED"
    ELSE IF HwidMismatch(found[1], hwid) THEN "HWID_MISMATCH"
    ELSE ""

\* the status never looked at
RejectReasonNoStatusCheck(outcome, found, hwid, t) ==
    IF NotFound(outcome, found) THEN "NOT_FOUND"
    ELSE IF Expired(found[1], t) THEN "EXPIRED"
    ELSE IF HwidMismatch(found[1], hwid) THEN "HWID_MISMATCH"
    ELSE ""

\* The reason the handler rejects with after a read that resolved, or "" when
\* it goes on to the write-backs.
RejectReason(outcome, found, hwid, t) ==
    IF NotFound(outcome, found) THEN "NOT_FOUND"
    ELSE IF NotActive(found[1]) THEN found[1].status
    ELSE IF Expired(found[1], t) THEN "EXPIRED"
    ELSE IF HwidMismatch(found[1], hwid) THEN "HWID_MISMATCH"
    ELSE ""

\* ------------------------------------------------------------ the handler
IdleReq ==
    [pc |-> "idle", license_key |-> "", hwid |-> "", lic |-> Null,
     read |-> "none", checkedAt |-> Null, seen |-> Null, calls |-> 0,
     bind |-> "none", seenWrite |-> "none", res |-> NoResponse]

InFlight(r) == req[r].pc \in {"read", "bind", "seen"}

\* requests are numbered in the order they arrive
IsNextArrival(r) == IF r = 1 THEN TRUE ELSE req[r - 1].pc # "idle"

TypeOK ==
    /\ env \in {"", "s3cr3t"}
    /\ now \in Nat
    /\ DOMAIN licenses = Keys
    /\ DOMAIN req = Reqs
    /\ DOMAIN create = CreateSlots
    /\ ticks \in 0..MaxTicks
    /\ DOMAIN serverState = Servers
    /\ DOMAIN livePlayersByLicense = Servers
    /\ DOMAIN hb = HbSlots
    /\ DOMAIN serverLogs = Servers
    /\ DOMAIN actionQueue = Servers
    /\ DOMAIN act = ActSlots
    /\ pushed \in Nat
    /\ appended \subseteq 1..pushed

\* a creation request that has not arrived
IdleCreate ==
    [pc |-> "idle", authorized |-> FALSE, expires_at |-> Null, i |-> 0,
     license_key |-> "", inserts |-> <<>>, res |-> [http |-> 0]]

\* no request has been held yet
NoRes == [op |-> "none"]

\* a heartbeat handler that is not running
IdleHb == [pc |-> "idle", license_key |-> ""]

\* a dashboard-action handler that is not running
IdleAct == [pc |-> "idle", token |-> "", type |-> "", payload |-> 0]

\* the in-memory objects are empty when the process starts
InitMem ==
    /\ ticks = 0
    /\ serverState = [k \in Servers |-> Null]
    /\ livePlayersByLicense = [k \in Servers |-> Null]
    /\ hb = [s \in HbSlots |-> IdleHb]
    /\ lastBeat = [k \in Servers |-> Null]
    /\ serverLogs = [k \in Servers |-> Null]
    /\ logged = [k \in Servers |-> 0]
    /\ actionQueue = [k \in Servers |-> Null]
    /\ act = [s \in ActSlots |-> IdleAct]
    /\ pushed = 0
    /\ appended = {}
    /\ delivered = <<>>
    /\ lastRes = NoRes

\* the process starts with the signing secret configured
Init ==
    /\ env = "s3cr3t"
    /\ now = 0
    /\ licenses = [k \in Keys |-> Null]
    /\ req = [r \in Reqs |-> IdleReq]
    /\ create = [c \in CreateSlots |-> IdleCreate]
    /\ InitMem

\* ----------------------------------------------------- the external store
\* the row create-license inserts
NewRow(expires_at) ==
    [status |-> "ACTIVE", expires_at |-> expires_at, hwid |-> "", last_seen |-> Null]

\* the external customers table: .select("*").eq("id", token).single()
Customer(token) ==
    IF token = "u1" THEN Some([license_key |-> "GG-0001"])
    ELSE IF token = "u2" THEN Some([license_key |-> "GG-0002"])
    ELSE Null

\* a read served from a copy of the row taken when the license was created
SelectAssumesActive(table, k) ==
    IF k \notin DOMAIN table \/ table[k] = Null THEN Null
    ELSE Some([status |-> "ACTIVE", expires_at |-> table[k][1].expires_at,
               hwid |-> table[k][1].hwid])

\* .select("*").eq("license_key", k).single(): the row's columns the handler
\* goes on to use (last_seen is read and never looked at)
Select(table, k) ==
    IF k \notin DOMAIN table \/ table[k] = Null THEN Null
    ELSE Some([status |-> table[k][1].status, expires_at |-> table[k][1].expires_at,
               hwid |-> table[k][1].hwid])

\* .update({ hwid }).eq("id", lic.id): a row's id never changes and no row is
\* ever deleted, so the row of id lic.id is the row of the key it was read by
UpdateHwid(table, k, hwid) ==
    IF k \notin DOMAIN table \/ table[k] = Null THEN table
    ELSE [table EXCEPT ![k] = Some([table[k][1] EXCEPT !.hwid = hwid])]

\* the last_seen update with a filter that matches no row
UpdateLastSeenNoRow(table, k, t) == table

\* the last_seen update written together with the status the handler read
UpdateLastSeenResetsStatus(table, k, t) ==
    IF k \notin DOMAIN table \/ table[k] = Null THEN table
    ELSE [table EXCEPT ![k] = Some([table[k][1] EXCEPT !.last_seen = t, !.status = "ACTIVE"])]

\* .update({ last_seen }).eq("id", lic.id)
UpdateLastSeen(table, k, t) ==
    IF k \notin DOMAIN table \/ table[k] = Null THEN table
    ELSE [table EXCEPT ![k] = Some([table[k][1] EXCEPT !.last_seen = t])]

\* .update({ status }).eq("license_key", license_key)
UpdateStatus(table, k, status) ==
    IF k \notin DOMAIN table \/ table[k] = Null THEN table
    ELSE [table EXCEPT ![k] = Some([table[k][1] EXCEPT !.status = status])]

\* a write-back that resolved with "ok" was applied; one that resolved with an
\* error or rejected was not
Applied(outcome, written, table) == IF outcome = "ok" THEN written ELSE table

\* --------------------------------------------- POST /api/license/verify
Finish(r, fields, res) ==
    req' = [req EXCEPT ![r] = [fields EXCEPT !.pc = "done", !.res = res]]

\* what the catch block answers
ServerError == Reject(500, "SERVER_ERROR")

\* the position after the HWID branch: the hwid update is awaited when the
\* row has no hwid and the request carries one, else the last_seen update
AfterChecks(lic, hwid) == IF NeedsBind(lic, hwid) THEN "bind" ELSE "seen"

\* The request arrives; the body is read and the key checked, then the row is
\* asked for.
Receive(r, license_key, hwid) ==
    /\ req[r].pc = "idle"
    /\ IsNextArrival(r)
    /\ LET got == [req[r] EXCEPT !.license_key = license_key, !.hwid = hwid] IN
       IF MissingKey(license_key)
       THEN Finish(r, got, Reject(400, "MISSING_KEY"))
       ELSE req' = [req EXCEPT ![r] = [got EXCEPT !.pc = "read", !.calls = 1]]
    /\ UNCHANGED <<env, now, licenses, memVars, create>>

\* The read resolves or rejects; the status, expiry and HWID checks run on the
\* row it returned, and the first write-back is sent.
ReadReturn(r, outcome) ==
    /\ req[r].pc = "read"
    /\ LET found == IF outcome = "ok" THEN Select(licenses, req[r].license_key) ELSE Null
           got == [req[r] EXCEPT !.read = outcome, !.lic = found, !.checkedAt = Some(now)]
           reason == RejectReason(outcome, found, req[r].hwid, now)
       IN
       IF outcome = "throw" THEN Finish(r, got, ServerError)
       ELSE IF reason # "" THEN Finish(r, got, Reject(200, reason))
       ELSE IF AfterChecks(found[1], req[r].hwid) = "bind"
       THEN req' = [req EXCEPT ![r] = [got EXCEPT !.pc = "bind", !.calls = 2]]
       ELSE req' = [req EXCEPT ![r] =
                        [got EXCEPT !.pc = "seen", !.seen = Some(now), !.calls = 2]]
    /\ UNCHANGED <<env, now, licenses, memVars, create>>

\* The hwid update resolves or rejects; the last_seen update is sent.
BindReturn(r, outcome) ==
    /\ req[r].pc = "bind"
    /\ licenses' = Applied(outcome, UpdateHwid(licenses, req[r].license_key, req[r].hwid), licenses)
    /\ LET got == [req[r] EXCEPT !.bind = outcome] IN
       IF outcome = "throw" THEN Finish(r, got, ServerError)
       ELSE req' = [req EXCEPT ![r] =
                        [got EXCEPT !.pc = "seen", !.seen = Some(now), !.calls = 3]]
    /\ UNCHANGED <<env, now, memVars, create>>

\* The last_seen update resolves or rejects; the token is built and signed.
SeenReturn(r, outcome) ==
    /\ req[r].pc = "seen"
    /\ licenses' = Applied(outcome, UpdateLastSeen(licenses, req[r].license_key, req[r].seen), licenses)
    /\ LET got == [req[r] EXCEPT !.seenWrite = outcome] IN
       IF outcome = "throw" THEN Finish(r, got, ServerError)
       ELSE Finish(r, got, Accept(req[r].license_key, req[r].lic[1], now))
    /\ UNCHANGED <<env, now, memVars, create>>

\* ------------------------------------------------------- admin operations
\* POST /admin/create-license, by an authorized admin: inserts an ACTIVE row
\* with no hwid; the insert of a key that exists fails and changes nothing.
CreateLicense(k, days) ==
    /\ licenses[k] = Null
    /\ licenses' = [licenses EXCEPT
                       ![k] = Some(NewRow(IF days > 0 THEN Some(now + days) ELSE Null))]
    /\ UNCHANGED <<env, now, req, memVars, create>>

\* POST /admin/toggle-license, by an authorized admin, with both fields given
ToggleLicense(k, status) ==
    /\ licenses[k] # Null
    /\ licenses[k][1].status # status
    /\ licenses' = UpdateStatus(licenses, k, status)
    /\ UNCHANGED <<env, now, req, memVars, create>>

\* POST /customer/toggle with both fields given and the token of a customer:
\* the customer is looked up and the status of the customer's license written
CustomerToggle(token, status) ==
    /\ token # "" /\ status # ""
    /\ Customer(token) # Null
    /\ LET k == Customer(token)[1].license_key IN
       /\ k \in Keys
       /\ licenses[k] # Null
       /\ licenses[k][1].status # status
       /\ licenses' = UpdateStatus(licenses, k, status)
    /\ UNCHANGED <<env, now, req, memVars, create>>

\* time passes
Tick ==
    /\ now < MaxTime
    /\ now' = now + 1
    /\ UNCHANGED <<env, licenses, req, memVars, create>>

\* the process as it starts when LICENSE_SECRET is not in its environment
InitNoSecret ==
    /\ env = ""
    /\ now = 0
    /\ licenses = [k \in Keys |-> Null]
    /\ req = [r \in Reqs |-> IdleReq]
    /\ create = [c \in CreateSlots |-> IdleCreate]
    /\ InitMem

\* ---------------------------------------------------------- specifications
\* what happens besides requests arriving
Progress ==
    \/ \E r \in Reqs, o \in Outcomes : ReadReturn(r, o)
    \/ \E r \in Reqs, o \in Outcomes : BindReturn(r, o)
    \/ \E r \in Reqs, o \in Outcomes : SeenReturn(r, o)
    \/ \E k \in Keys, d \in 0..MaxDays : CreateLicense(k, d)
    \/ \E k \in Keys, s \in Statuses : ToggleLicense(k, s)
    \/ \E t \in {"u1", "u2"}, s \in Statuses : CustomerToggle(t, s)
    \/ Tick

\* an agent that names its license and its device in every request and sends
\* its next request after the response to the last
ReceiveSeq(r, license_key, hwid) ==
    /\ \A q \in Reqs : ~InFlight(q)
    /\ Receive(r, license_key, hwid)

NextSeq ==
    \/ \E r \in Reqs, k \in Keys, h \in BodyHwids \ {""} : ReceiveSeq(r, k, h)
    \/ Progress

SpecSeq == Init /\ [][NextSeq]_vars

\* requests that overlap in every way
Next ==
    \/ \E r \in 1..MaxRace, k \in BodyKeys, h \in BodyHwids : Receive(r, k, h)
    \/ \E r \in Reqs, o \in Outcomes : ReadReturn(r, o)
    \/ \E r \in Reqs, o \in Outcomes : BindReturn(r, o)
    \/ \E r \in Reqs, o \in Outcomes : SeenReturn(r, o)
    \/ \E k \in Keys, d \in 0..MaxDays : CreateLicense(k, d)
    \/ \E k \in Keys, s \in Statuses : ToggleLicense(k, s)
    \/ \E t \in {"u1", "u2"}, s \in Statuses : CustomerToggle(t, s)
    \/ Tick

Spec == Init /\ [][Next]_vars

\* the same requests against a process started without LICENSE_SECRET
SpecNoSecret == InitNoSecret /\ [][Next]_vars

\* ------------------------------------- live memory (status and players)
\* What a heartbeat body carries besides the key: players (<<>> when the
\* field is absent or not an array), version ("" when absent), uptime (0 when
\* absent).  A player object is one opaque value.
Bodies ==
    {[players |-> Some(<<"p1", "p2">>), version |-> "1.0", uptime |-> 7],
     [players |-> Some(<<"p3">>), version |-> "1.1", uptime |-> 9],
     [players |-> Null, version |-> "", uptime |-> 0]}

\* the clock moves by a millisecond or by a millisecond less than the TTL
ElapseSteps == {1, TTL - 1}

\* Array.isArray(players) ? players : []
RosterOf(players) == IF players = Null THEN <<>> ELSE players[1]

\* the new roster added to the stored one
HeartbeatRosterMerged(old, players) ==
    (IF old = Null THEN <<>> ELSE old[1]) \o RosterOf(players)

\* livePlayersByLicense[license_key] = ...: the value stored over the old one
HeartbeatRoster(old, players) == RosterOf(players)

\* the stored version kept when the body carries none
HeartbeatStateKeepsVersion(old, roster, body, t) ==
    [last_seen |-> t, players |-> Len(roster), uptime |-> body.uptime,
     version |-> IF body.version # "" THEN body.version
                 ELSE IF old # Null THEN old[1].version ELSE ""]

\* the player count taken from the record stored before
HeartbeatStateOldCount(old, roster, body, t) ==
    [last_seen |-> t, players |-> IF old = Null THEN 0 ELSE old[1].players,
     uptime |-> body.uptime, version |-> body.version]

\* serverState[license_key] = { last_seen, players, uptime, version }: the
\* record stored over the old one; Number(uptime || 0), version || null
HeartbeatState(old, roster, body, t) ==
    [last_seen |-> t, players |-> Len(roster), uptime |-> body.uptime,
     version |-> body.version]

HeartbeatResponse(http, success) == [http |-> http, success |-> success]

\* POST /api/server/heartbeat up to its await: the key is checked, the roster
\* and the liveness record are stored and the upsert is sent.
Heartbeat(s, license_key, body) ==
    /\ hb[s].pc = "idle"
    /\ IF license_key = ""
       THEN /\ lastRes' = [op |-> "heartbeat", key |-> "",
                           body |-> HeartbeatResponse(400, FALSE)]
            /\ UNCHANGED <<serverState, livePlayersByLicense, hb, lastBeat>>
       ELSE LET roster == HeartbeatRoster(livePlayersByLicense[license_key], body.players) IN
            /\ livePlayersByLicense' =
                   [livePlayersByLicense EXCEPT ![license_key] = Some(roster)]
            /\ serverState' =
                   [serverState EXCEPT ![license_key] =
                        Some(HeartbeatState(serverState[license_key], roster, body, now))]
            /\ hb' = [hb EXCEPT ![s] = [pc |-> "upsert", license_key |-> license_key]]
            /\ lastBeat' = [lastBeat EXCEPT ![license_key] = Some([at |-> now, body |-> body])]
            /\ lastRes' = NoRes
    /\ UNCHANGED <<now, ticks, verifyVars, logVars, queueVars>>

\* the record and the roster taken back when the upsert rejects
HeartbeatReturnRollsBack(s, outcome) ==
    /\ hb[s].pc = "upsert"
    /\ hb' = [hb EXCEPT ![s] = IdleHb]
    /\ lastRes' = [op |-> "heartbeat", key |-> hb[s].license_key,
                   body |-> IF outcome = "throw" THEN HeartbeatResponse(500, FALSE)
                            ELSE HeartbeatResponse(200, TRUE)]
    /\ IF outcome = "throw"
       THEN /\ serverState' = [serverState EXCEPT ![hb[s].license_key] = Null]
            /\ livePlayersByLicense' =
                   [livePlayersByLicense EXCEPT ![hb[s].license_key] = Null]
       ELSE UNCHANGED <<serverState, livePlayersByLicense>>
    /\ UNCHANGED <<now, ticks, lastBeat, verifyVars, logVars, queueVars>>

\* The upsert resolves (its {error} is not looked at) or rejects into the catch.
HeartbeatReturn(s, outcome) ==
    /\ hb[s].pc = "upsert"
    /\ hb' = [hb EXCEPT ![s] = IdleHb]
    /\ lastRes' = [op |-> "heartbeat", key |-> hb[s].license_key,
                   body |-> IF outcome = "throw" THEN HeartbeatResponse(500, FALSE)
                            ELSE HeartbeatResponse(200, TRUE)]
    /\ UNCHANGED <<now, ticks, serverState, livePlayersByLicense, lastBeat,
                   verifyVars, logVars, queueVars>>

\* a key with a record counted as online however old the record is
GetStatusNeverStale(state, k, t) ==
    IF state[k] = Null
    THEN [online |-> FALSE, players |-> 0, uptime |-> 0, version |-> "", last_seen |-> Null]
    ELSE [online |-> TRUE, players |-> state[k][1].players,
          uptime |-> state[k][1].uptime, version |-> state[k][1].version,
          last_seen |-> Some(state[k][1].last_seen)]

\* the boundary instant counted as online
GetStatusInclusive(state, k, t) ==
    IF state[k] = Null
    THEN [online |-> FALSE, players |-> 0, uptime |-> 0, version |-> "", last_seen |-> Null]
    ELSE [online |-> t - state[k][1].last_seen <= TTL, players |-> state[k][1].players,
          uptime |-> state[k][1].uptime, version |-> state[k][1].version,
          last_seen |-> Some(state[k][1].last_seen)]

\* a key without a record answered with an error
GetStatusUnknownError(state, k, t) ==
    IF state[k] = Null
    THEN [error |-> "NOT_FOUND"]
    ELSE [online |-> t - state[k][1].last_seen < TTL, players |-> state[k][1].players,
          uptime |-> state[k][1].uptime, version |-> state[k][1].version,
          last_seen |-> Some(state[k][1].last_seen)]

\* the body of GET /api/server/status/:license at time t; the answer for a
\* key without a record has no last_seen field
GetStatus(state, k, t) ==
    IF state[k] = Null
    THEN [online |-> FALSE, players |-> 0, uptime |-> 0, version |-> "", last_seen |-> Null]
    ELSE [online |-> t - state[k][1].last_seen < TTL, players |-> state[k][1].players,
          uptime |-> state[k][1].uptime, version |-> state[k][1].version,
          last_seen |-> Some(state[k][1].last_seen)]

\* livePlayersByLicense[license] || []
GetPlayers(rosters, k) == IF rosters[k] = Null THEN <<>> ELSE rosters[k][1]

\* GET /api/server/status/:license
StatusRequest(k) ==
    /\ lastRes' = [op |-> "status", key |-> k, at |-> now,
                   body |-> GetStatus(serverState, k, now)]
    /\ UNCHANGED <<now, liveVars, verifyVars, logVars, queueVars>>

\* GET /api/server/players/:license
PlayersRequest(k) ==
    /\ lastRes' = [op |-> "players", key |-> k, at |-> now,
                   body |-> [success |-> TRUE, players |-> GetPlayers(livePlayersByLicense, k)]]
    /\ UNCHANGED <<now, liveVars, verifyVars, logVars, queueVars>>

\* time passes, in milliseconds
Elapse(d) ==
    /\ ticks < MaxTicks
    /\ ticks' = ticks + 1
    /\ now' = now + d
    /\ lastRes' = NoRes
    /\ UNCHANGED <<serverState, livePlayersByLicense, hb, lastBeat,
                   verifyVars, logVars, queueVars>>

NextLive ==
    \/ \E s \in HbSlots, k \in BodyServers, b \in Bodies : Heartbeat(s, k, b)
    \/ \E s \in HbSlots, o \in Outcomes : HeartbeatReturn(s, o)
    \/ \E k \in Servers : StatusRequest(k)
    \/ \E k \in Servers : PlayersRequest(k)
    \/ \E d \in ElapseSteps : Elapse(d)

\* game servers sending heartbeats and consoles reading status and rosters
SpecLive == Init /\ [][NextLive]_vars

\* After the last heartbeat of a run time still passes: the clock is
\* followed for as long as some record is younger than the TTL.
Outlast ==
    /\ ticks = MaxTicks
    /\ \E k \in Servers :
          serverState[k] # Null /\ now - serverState[k][1].last_seen < TTL
    /\ now' = now + (TTL - 1)
    /\ lastRes' = NoRes
    /\ UNCHANGED <<liveVars, verifyVars, logVars, queueVars>>

NextTtl ==
    \/ \E k \in BodyServers, b \in Bodies : ticks < MaxTicks /\ Heartbeat(1, k, b)
    \/ \E o \in Outcomes : HeartbeatReturn(1, o)
    \/ \E k \in Servers : StatusRequest(k)
    \/ \E d \in ElapseSteps : Elapse(d)
    \/ Outlast

\* game servers that send heartbeats for a while and then stop, and a clock
\* that does not stop before every record is stale
SpecTtl ==
    /\ Init
    /\ [][NextTtl]_vars
    /\ WF_vars(\E d \in ElapseSteps : Elapse(d))
    /\ WF_vars(Outlast)

\* ------------------------------------------------------- server logs
\* the entry POST /api/server/log stores for a body that carries, besides the
\* key, a message only: type || "log", title || "Server", meta || ""
LogItem(t, message) ==
    [time |-> t, type |-> "log", title |-> "Server", message |-> message, meta |-> ""]

\* the entries of a key, [] when it has none
LogsOf(logs, k) == IF logs[k] = Null THEN <<>> ELSE logs[k][1]

\* the new entry put at the end of the list, the cut taken from the front
pushServerLogAtEnd(logs, k, item) ==
    LET list == LogsOf(logs, k) \o <<item>> IN
    [logs EXCEPT ![k] = Some(IF Len(list) > LogCap THEN SubSeq(list, 1, LogCap) ELSE list)]

\* pushServerLog: unshift(item), then the length cut to 300
pushServerLog(logs, k, item) ==
    LET list == <<item>> \o LogsOf(logs, k) IN
    [logs EXCEPT ![k] = Some(IF Len(list) > LogCap THEN SubSeq(list, 1, LogCap) ELSE list)]

\* The message of a log body: absent, or the text of the next entry for the
\* key; the texts sent for a key are numbered in the order they are sent.
BodyMessages(k) == {Null, Some(IF k \in Servers THEN logged[k] + 1 ELSE 1)}

\* the number of entries accepted so far, over all keys
RECURSIVE SumOver(_, _)
SumOver(f, S) ==
    IF S = {} THEN 0
    ELSE LET k == CHOOSE x \in S : TRUE IN f[k] + SumOver(f, S \ {k})

\* a body without message stored as an entry with an empty message
AppendLogNoMessageCheck(license_key, message) ==
    /\ IF license_key = ""
       THEN /\ lastRes' = [op |-> "log", key |-> license_key, message |-> message,
                           body |-> [http |-> 400, success |-> FALSE]]
            /\ UNCHANGED <<serverLogs, logged>>
       ELSE /\ serverLogs' = pushServerLog(serverLogs, license_key,
                                LogItem(now, IF message = Null THEN 0 ELSE message[1]))
            /\ logged' = [logged EXCEPT ![license_key] = @ + 1]
            /\ lastRes' = [op |-> "log", key |-> license_key, message |-> message,
                           body |-> [http |-> 200, success |-> TRUE]]
    /\ UNCHANGED <<now, liveVars, verifyVars, queueVars>>

\* POST /api/server/log
AppendLog(license_key, message) ==
    /\ IF license_key = "" \/ message = Null
       THEN /\ lastRes' = [op |-> "log", key |-> license_key, message |-> message,
                           body |-> [http |-> 400, success |-> FALSE]]
            /\ UNCHANGED <<serverLogs, logged>>
       ELSE /\ serverLogs' = pushServerLog(serverLogs, license_key, LogItem(now, message[1]))
            /\ logged' = [logged EXCEPT ![license_key] = @ + 1]
            /\ lastRes' = [op |-> "log", key |-> license_key, message |-> message,
                           body |-> [http |-> 200, success |-> TRUE]]
    /\ UNCHANGED <<now, liveVars, verifyVars, queueVars>>

\* GET /api/server/logs/:license
LogsRequest(k) ==
    /\ lastRes' = [op |-> "logs", key |-> k,
                   body |-> [success |-> TRUE, data |-> LogsOf(serverLogs, k)]]
    /\ UNCHANGED <<now, liveVars, verifyVars, logVars, queueVars>>

\* the game server that fills its log
LogServer == "GG-0001"

NextLogs ==
    \/ \E k \in {"", LogServer} : \E m \in BodyMessages(k) :
          SumOver(logged, Servers) < MaxLogged /\ AppendLog(k, m)
    \/ \E k \in Servers : LogsRequest(k)

\* one game server sending log entries, up to more than its log holds, and
\* consoles reading the logs of any key
SpecLogs == Init /\ [][NextLogs]_vars

\* ------------------------------------------ action queue (dashboard -> server)
\* token of a dashboard body: absent, the id of a customer, or no customer's id
BodyTokens == {"", "u1", "u2", "nobody"}
\* type of a dashboard body: absent, or a command for the game server
BodyTypes == {"", "ban"}

\* the pending actions of a key, [] when it has none
PendingOf(queue, k) == IF queue[k] = Null THEN <<>> ELSE queue[k][1]

\* the payloads of a list of actions
PayloadsOf(list) == [i \in 1..Len(list) |-> list[i].payload]

\* the new action put in front of the pending ones
pushActionAtFront(queue, k, action) ==
    LET list == <<action>> \o PendingOf(queue, k) IN
    [queue EXCEPT ![k] =
        Some(IF Len(list) > QueueCap THEN SubSeq(list, QueueTrim + 1, Len(list)) ELSE list)]

\* the oldest action alone cut off when the list has more than 200
pushActionEvictsOne(queue, k, action) ==
    LET list == PendingOf(queue, k) \o <<action>> IN
    [queue EXCEPT ![k] =
        Some(IF Len(list) > QueueCap THEN SubSeq(list, 2, Len(list)) ELSE list)]

\* the action pushed on the queue of every key
pushActionEveryQueue(queue, k, action) ==
    [j \in DOMAIN queue |-> Some(PendingOf(queue, j) \o <<action>>)]

\* pushAction: push(action), then the 50 oldest cut off when more than 200
pushAction(queue, k, action) ==
    LET list == PendingOf(queue, k) \o <<action>> IN
    [queue EXCEPT ![k] =
        Some(IF Len(list) > QueueCap THEN SubSeq(list, QueueTrim + 1, Len(list)) ELSE list)]

\* POST /api/dashboard/action up to its await: token and type are checked and
\* the customer is asked for.  The payload of a body is the number of the
\* request, which tells the actions apart.
ActionReceive(s, token, type) ==
    /\ act[s].pc = "idle"
    /\ IF token = "" \/ type = ""
       THEN /\ lastRes' = [op |-> "action", key |-> "", token |-> token, type |-> type,
                           body |-> [http |-> 400, success |-> FALSE]]
            /\ UNCHANGED <<act, pushed>>
       ELSE /\ act' = [act EXCEPT ![s] = [pc |-> "lookup", token |-> token,
                                          type |-> type, payload |-> pushed + 1]]
            /\ pushed' = pushed + 1
            /\ lastRes' = NoRes
    /\ UNCHANGED <<now, actionQueue, appended, delivered, liveVars, verifyVars, logVars>>

\* The lookup resolves or rejects; the action of a known customer is pushed on
\* the queue of the customer's license.  The id is "ACT-" + Date.now() + "-" +
\* a random number, of which the clock's part is kept.
ActionReturn(s, outcome) ==
    /\ act[s].pc = "lookup"
    /\ act' = [act EXCEPT ![s] = IdleAct]
    /\ LET user == IF outcome = "ok" THEN Customer(act[s].token) ELSE Null IN
       IF outcome = "throw"
       THEN /\ lastRes' = [op |-> "action", key |-> "",
                           token |-> act[s].token, type |-> act[s].type,
                           body |-> [http |-> 500, success |-> FALSE]]
            /\ UNCHANGED <<actionQueue, appended>>
       ELSE IF outcome = "error" \/ user = Null
       THEN /\ lastRes' = [op |-> "action", key |-> "",
                           token |-> act[s].token, type |-> act[s].type,
                           body |-> [http |-> 401, success |-> FALSE, error |-> "UNAUTHORIZED"]]
            /\ UNCHANGED <<actionQueue, appended>>
       ELSE /\ actionQueue' =
                   pushAction(actionQueue, user[1].license_key,
                              [id |-> <<"ACT", now>>, type |-> act[s].type,
                               payload |-> act[s].payload, created_at |-> now])
            /\ appended' = appended \cup {act[s].payload}
            /\ lastRes' = [op |-> "action", key |-> user[1].license_key,
                           token |-> act[s].token, type |-> act[s].type,
                           body |-> [http |-> 200, success |-> TRUE, id |-> <<"ACT", now>>]]
    /\ UNCHANGED <<now, pushed, delivered, liveVars, verifyVars, logVars>>

\* the pending list returned and left in the queue
DrainActionsKeepsQueue(k) ==
    /\ lastRes' = [op |-> "actions", key |-> k,
                   body |-> [success |-> TRUE, actions |-> PendingOf(actionQueue, k)]]
    /\ actionQueue' = [actionQueue EXCEPT ![k] = Some(PendingOf(actionQueue, k))]
    /\ delivered' = delivered \o PayloadsOf(PendingOf(actionQueue, k))
    /\ UNCHANGED <<now, act, pushed, appended, liveVars, verifyVars, logVars>>

\* the oldest pending action returned and the whole queue emptied
DrainActionsReturnsFirst(k) ==
    LET list == IF PendingOf(actionQueue, k) = <<>> THEN <<>>
                ELSE <<Head(PendingOf(actionQueue, k))>> IN
    /\ lastRes' = [op |-> "actions", key |-> k,
                   body |-> [success |-> TRUE, actions |-> list]]
    /\ actionQueue' = [actionQueue EXCEPT ![k] = Some(<<>>)]
    /\ delivered' = delivered \o PayloadsOf(list)
    /\ UNCHANGED <<now, act, pushed, appended, liveVars, verifyVars, logVars>>

\* GET /api/server/actions/:license: the pending list is returned and the
\* queue of the key set to []
DrainActions(k) ==
    /\ lastRes' = [op |-> "actions", key |-> k,
                   body |-> [success |-> TRUE, actions |-> PendingOf(actionQueue, k)]]
    /\ actionQueue' = [actionQueue EXCEPT ![k] = Some(<<>>)]
    /\ delivered' = delivered \o PayloadsOf(PendingOf(actionQueue, k))
    /\ UNCHANGED <<now, act, pushed, appended, liveVars, verifyVars, logVars>>

NextQueue ==
    \/ \E s \in ActSlots, t \in BodyTokens, y \in BodyTypes :
          pushed < MaxActions /\ ActionReceive(s, t, y)
    \/ \E s \in ActSlots, o \in Outcomes : ActionReturn(s, o)
    \/ \E k \in Servers : DrainActions(k)

\* consoles sending actions and game servers polling for them
SpecQueue == Init /\ [][NextQueue]_vars

\* the customer whose console fills the queue of its license
FillToken == "u1"

NextFill ==
    \/ pushed < MaxFill /\ ActionReceive(1, FillToken, "ban")
    \/ ActionReturn(1, "ok")

\* one console sending action after action, more than a queue holds, each
\* after the response to the one before, and no poll
SpecFill == Init /\ [][NextFill]_vars

\* ------------------------------------------- all in-memory handlers together
NextMem ==
    \/ \E k \in BodyServers, b \in Bodies : Heartbeat(1, k, b)
    \/ \E o \in Outcomes : HeartbeatReturn(1, o)
    \/ \E k \in Servers : StatusRequest(k)
    \/ \E k \in Servers : PlayersRequest(k)
    \/ \E k \in BodyServers : \E m \in BodyMessages(k) :
          SumOver(logged, Servers) < MaxMem /\ AppendLog(k, m)
    \/ \E k \in Servers : LogsRequest(k)
    \/ \E t \in BodyTokens, y \in BodyTypes : pushed < MaxMem /\ ActionReceive(1, t, y)
    \/ \E o \in Outcomes : ActionReturn(1, o)
    \/ \E k \in Servers : DrainActions(k)

\* game servers and consoles of two licenses using every in-memory route, a
\* few requests each
SpecMem == Init /\ [][NextMem]_vars

\* ------------------------------- POST /api/admin/licenses/create (retry loop)
\* expires_at of a creation body: absent, or a date
BodyExpiries == {Null, Some(1)}

\* res.status(401).json({ ok: false, error: "UNAUTHORIZED" })
Unauthorized == [http |-> 401, ok |-> FALSE, error |-> "UNAUTHORIZED"]

\* res.json({ ok: true, license: data })
Created(license_key, row) ==
    [http |-> 200, ok |-> TRUE, error |-> "", license |-> <<license_key, row>>]

\* res.status(500).json({ ok: false, error: "DB_ERROR", details })
DbError == [http |-> 500, ok |-> FALSE, error |-> "DB_ERROR"]

\* res.status(500).json({ ok: false, error: "FAILED_TO_GENERATE_UNIQUE_KEY" })
FailedToGenerate == [http |-> 500, ok |-> FALSE, error |-> "FAILED_TO_GENERATE_UNIQUE_KEY"]

\* every insert error tried again, whatever its message
RetriesAnyError(outcome) == outcome \in {"duplicate", "error"}

\* the error's message includes "duplicate": the loop goes round again
Retries(outcome) == outcome = "duplicate"

\* The locals of a creation request after its insert ended with `outcome`;
\* `next` is the key generated if the loop goes round again. An insert that
\* rejects is caught nowhere: the handler ends without a response.
AfterInsert(got, outcome, next) ==
    IF outcome = "throw" THEN [got EXCEPT !.pc = "lost"]
    ELSE IF outcome = "ok"
    THEN [got EXCEPT !.pc = "done",
                     !.res = Created(got.license_key, NewRow(got.expires_at))]
    ELSE IF ~Retries(outcome) THEN [got EXCEPT !.pc = "done", !.res = DbError]
    ELSE IF got.i + 1 < Attempts
    THEN [got EXCEPT !.i = @ + 1, !.license_key = next]
    ELSE [got EXCEPT !.pc = "done", !.res = FailedToGenerate]

\* The request arrives: the admin key is checked, and with the right key the
\* first license key is generated and its insert sent.
CreateRequest(c, authorized, expires_at, license_key) ==
    /\ create[c].pc = "idle"
    /\ create' = [create EXCEPT ![c] =
           IF ~authorized THEN [@ EXCEPT !.pc = "done", !.res = Unauthorized]
           ELSE [@ EXCEPT !.pc = "insert", !.authorized = TRUE,
                          !.expires_at = expires_at, !.license_key = license_key]]
    /\ UNCHANGED <<env, now, licenses, req, memVars>>

\* The insert ends. license_key is unique in the table: the insert of a key
\* that no row has adds the row, the insert of a key that a row has ends with
\* a duplicate-key error.
InsertReturn(c, outcome, next) ==
    /\ create[c].pc = "insert"
    /\ LET k == create[c].license_key
           got == [create[c] EXCEPT !.inserts = Append(@, outcome)]
       IN
       /\ outcome = "ok" => licenses[k] = Null
       /\ outcome = "duplicate" => licenses[k] # Null
       /\ licenses' = IF outcome = "ok"
                      THEN [licenses EXCEPT ![k] = Some(NewRow(create[c].expires_at))]
                      ELSE licenses
       /\ create' = [create EXCEPT ![c] = AfterInsert(got, outcome, next)]
    /\ UNCHANGED <<env, now, req, memVars>>

NextCreate ==
    \/ \E c \in CreateSlots, a \in BOOLEAN, e \in BodyExpiries, k \in Keys :
           CreateRequest(c, a, e, k)
    \/ \E c \in CreateSlots, o \in InsertOutcomes, k \in Keys : InsertReturn(c, o, k)

\* creation requests, with and without the admin key, that overlap in every way
SpecCreate == Init /\ [][NextCreate]_vars

\* ------------------------------------------------------------------ claims
Done(r) == req[r].pc = "done"

\* the read of request r resolved with a row
ReadRow(r) == req[r].read = "ok" /\ req[r].lic # Null

\* the row request r read had expired when the handler looked at it
ExpiredWhenChecked(r) ==
    /\ req[r].lic[1].expires_at # Null
    /\ req[r].lic[1].expires_at[1] < req[r].checkedAt[1]

\* the row request r read is bound to another device than the request names
OtherDevice(r) ==
    /\ req[r].lic[1].hwid # ""
    /\ req[r].hwid # ""
    /\ req[r].lic[1].hwid # req[r].hwid

NoToken(r) == ~req[r].res.valid /\ req[r].res.payload = <<>> /\ req[r].res.signature = <<>>

\* C1: the checks apply in a fixed order and the first that applies decides the
\* response: a missing key before anything is read; then, on what the read
\* resolved with, no row; then a stored status other than ACTIVE, whatever the
\* expiry and the hwid; then the expiry, whatever the hwid; then the hwid; and
\* a request is accepted only if none of them applies.
C1_CheckOrder ==
    \A r \in Reqs : Done(r) /\ req[r].read # "throw" =>
        /\ req[r].license_key = "" => req[r].res.reason = "MISSING_KEY"
        /\ req[r].license_key # "" /\ req[r].lic = Null => req[r].res.reason = "NOT_FOUND"
        /\ req[r].lic # Null /\ req[r].lic[1].status # "ACTIVE"
              => req[r].res.reason = req[r].lic[1].status
        /\ req[r].lic # Null /\ req[r].lic[1].status = "ACTIVE" /\ ExpiredWhenChecked(r)
              => req[r].res.reason = "EXPIRED"
        /\ req[r].lic # Null /\ req[r].lic[1].status = "ACTIVE" /\ ~ExpiredWhenChecked(r)
              /\ OtherDevice(r)
              => req[r].res.reason = "HWID_MISMATCH"
        /\ req[r].res.valid =>
              /\ req[r].license_key # "" /\ req[r].lic # Null
              /\ req[r].lic[1].status = "ACTIVE"
              /\ ~ExpiredWhenChecked(r) /\ ~OtherDevice(r)

\* a row that is not ACTIVE, has expired and is bound to another device was
\* rejected with its stored status
C1_Witness ==
    \E r \in Reqs :
        /\ Done(r) /\ ReadRow(r)
        /\ req[r].lic[1].status = "BANNED" /\ ExpiredWhenChecked(r) /\ OtherDevice(r)
        /\ req[r].res.reason = "BANNED"

\* C2: verification fails closed.  A read that resolved with an error or
\* rejected yields valid=false with no payload and no signature, and valid=true
\* is answered only after a read that resolved with a row that was ACTIVE and
\* not expired.
C2_FailClosed ==
    \A r \in Reqs :
        /\ req[r].read \in {"error", "throw"} => Done(r) /\ NoToken(r)
        /\ req[r].res.valid =>
              ReadRow(r) /\ req[r].lic[1].status = "ACTIVE" /\ ~ExpiredWhenChecked(r)

\* the table holds a row that would verify, the read of it failed, and the
\* request was refused
C2_Witness ==
    \E r \in Reqs :
        /\ Done(r) /\ req[r].read \in {"error", "throw"}
        /\ req[r].license_key \in Keys
        /\ licenses[req[r].license_key] # Null
        /\ licenses[req[r].license_key][1].status = "ACTIVE"
        /\ licenses[req[r].license_key][1].expires_at = Null
        /\ ~req[r].res.valid

\* no call request r made to the store resolved with an error or rejected
NoCallFailed(r) ==
    \A o \in {req[r].read, req[r].bind, req[r].seenWrite} : o \notin {"error", "throw"}

\* request r asked for key k with device h and read an ACTIVE, unexpired row,
\* and none of its calls to the store failed
VerifiedLive(r, k, h) ==
    /\ Done(r) /\ req[r].license_key = k /\ req[r].hwid = h
    /\ ReadRow(r) /\ req[r].lic[1].status = "ACTIVE" /\ ~ExpiredWhenChecked(r)
    /\ NoCallFailed(r)

\* the hwid the table holds for k once request r has answered and before the
\* next request arrives
LeavesHwid(r, k, h) ==
    (IF r + 1 \in Reqs THEN req[r + 1].pc = "idle" ELSE TRUE) => licenses[k][1].hwid = h

C4_HwidWriteOnce ==
    [][\A k \in Keys :
          licenses[k] # Null /\ licenses[k][1].hwid # ""
             => licenses'[k][1].hwid = licenses[k][1].hwid]_vars

\* C5: a request that names a device other than the one the ACTIVE, unexpired
\* row it read is bound to is rejected with HWID_MISMATCH and gets no payload
\* and no signature.
C5_HwidMismatch ==
    \A r \in Reqs :
        ( /\ Done(r) /\ ReadRow(r)
          /\ req[r].lic[1].status = "ACTIVE" /\ ~ExpiredWhenChecked(r)
          /\ OtherDevice(r) )
        => req[r].res.reason = "HWID_MISMATCH" /\ NoToken(r) /\ req[r].calls = 1

C5_Witness ==
    \E r \in Reqs :
        /\ Done(r) /\ ReadRow(r)
        /\ req[r].lic[1].status = "ACTIVE" /\ ~ExpiredWhenChecked(r)
        /\ req[r].lic[1].hwid = "A" /\ req[r].hwid = "B"
        /\ req[r].res.reason = "HWID_MISMATCH"

\* C6: a request that passes the status, expiry and HWID checks is answered
\* valid=true with payload and signature, however its write-backs end.
C6_WriteBackNeverFails ==
    \A r \in Reqs :
        ( /\ Done(r) /\ ReadRow(r)
          /\ req[r].lic[1].status = "ACTIVE" /\ ~ExpiredWhenChecked(r)
          /\ ~OtherDevice(r) )
        => req[r].res.valid /\ req[r].res.payload # <<>> /\ req[r].res.signature # <<>>

\* C7: a request without license_key is rejected with MISSING_KEY and no call
\* to the store was made for it: no read, no write.
C7_MissingKey ==
    \A r \in Reqs :
        req[r].pc # "idle" /\ req[r].license_key = "" =>
            /\ Done(r)
            /\ req[r].res.reason = "MISSING_KEY" /\ NoToken(r)
            /\ req[r].calls = 0
            /\ req[r].read = "none" /\ req[r].bind = "none" /\ req[r].seenWrite = "none"

C7_Witness ==
    \E r \in Reqs : Done(r) /\ req[r].license_key = "" /\ req[r].res.reason = "MISSING_KEY"

\* C8: a key the table has no row for is answered valid=false, NOT_FOUND, as
\* an ordinary response (status 200), not as an error.
C8_NotFound ==
    \A r \in Reqs :
        Done(r) /\ req[r].read = "ok" /\ req[r].lic = Null
            => req[r].res = Reject(200, "NOT_FOUND")

C8_Witness ==
    \E r \in Reqs :
        /\ Done(r) /\ req[r].read = "ok" /\ req[r].lic = Null
        /\ req[r].license_key \in Keys
        /\ req[r].res.reason = "NOT_FOUND"

\* C9: a row whose status is not ACTIVE is answered valid=false with the stored
\* status as the reason, whatever its expires_at and hwid.
C9_StoredStatus ==
    \A r \in Reqs :
        Done(r) /\ ReadRow(r) /\ req[r].lic[1].status # "ACTIVE"
            => req[r].res = Reject(200, req[r].lic[1].status)

\* a banned row that has not expired and is bound to the device of the request
C9_Witness ==
    \E r \in Reqs :
        /\ Done(r) /\ ReadRow(r)
        /\ req[r].lic[1].status = "BANNED"
        /\ ~ExpiredWhenChecked(r)
        /\ req[r].lic[1].hwid = "A" /\ req[r].hwid = "A"
        /\ req[r].res.reason = "BANNED" /\ ~req[r].res.valid

\* C10: for an ACTIVE row the answer is EXPIRED exactly when expires_at is set
\* and strictly before the time of the check; a row with no expires_at never is,
\* and a row whose expires_at is the time of the check is not yet.
C10_Expiry ==
    \A r \in Reqs :
        Done(r) /\ ReadRow(r) /\ req[r].lic[1].status = "ACTIVE" =>
            /\ req[r].res.reason = "EXPIRED" <=> ExpiredWhenChecked(r)
            /\ req[r].lic[1].expires_at = Null => req[r].res.reason # "EXPIRED"
            /\ req[r].lic[1].expires_at = req[r].checkedAt => req[r].res.reason # "EXPIRED"

\* a row checked at the very time it expires was accepted, and one checked
\* after it was refused
C10_Witness ==
    \E r, q \in Reqs :
        /\ Done(r) /\ ReadRow(r) /\ req[r].lic[1].status = "ACTIVE"
        /\ req[r].lic[1].expires_at = req[r].checkedAt
        /\ req[r].res.valid
        /\ Done(q) /\ ReadRow(q) /\ req[q].lic[1].status = "ACTIVE"
        /\ req[q].lic[1].expires_at # Null
        /\ req[q].lic[1].expires_at[1] + 1 = req[q].checkedAt[1]
        /\ req[q].res.reason = "EXPIRED"

\* request r is answered valid=true by this step
Accepts(r) == req[r].pc # "done" /\ req'[r].pc = "done" /\ req'[r].res.valid

\* request r has been answered valid=true
Accepted(r) == Done(r) /\ req[r].res.valid

\* C11: every verification that is answered valid=true, whatever its HWID
\* branch, sent a last_seen update carrying the clock's value at the time it
\* was sent and had that update resolve before the response; when the update
\* succeeded, the row's last_seen after the step that answers is the value
\* this verification sent.
C11_LastSeen ==
    [][\A r \in Reqs :
        /\ (req[r].pc # "seen" /\ req'[r].pc = "seen") => req'[r].seen = Some(now)
        /\ Accepts(r) =>
              /\ req[r].pc = "seen"
              /\ req[r].seen # Null
              /\ req[r].checkedAt[1] <= req[r].seen[1]
              /\ req[r].seen[1] <= now
              /\ req'[r].seenWrite \in {"ok", "error"}
              /\ req'[r].seenWrite = "ok" =>
                    licenses'[req[r].license_key][1].last_seen = req[r].seen]_vars

\* one accepted verification bound an hwid and another carried none, their
\* last_seen writes succeeded, and the row holds the time of one of them
C11_Witness ==
    \E r, q \in Reqs :
        /\ Accepted(r) /\ Accepted(q)
        /\ req[r].bind = "ok" /\ req[r].seenWrite = "ok"
        /\ req[q].hwid = "" /\ req[q].seenWrite = "ok"
        /\ req[r].seen[1] > 0
        /\ licenses[req[r].license_key][1].last_seen = req[r].seen

\* the payloads that differ from p in exactly one field
OtherPayloads(p) ==
    {[p EXCEPT ![1] = "GG-9999"], [p EXCEPT ![2] = "BANNED"],
     [p EXCEPT ![3] = Some(MaxTime + MaxDays + 1)], [p EXCEPT ![4] = p[4] + 1]}

\* C12: the payload of a valid=true response is, in this order, the
\* license_key of the request, the status and the expires_at of the row the
\* handler read, and the clock's value when the response is built; the
\* signature is the HMAC under the process's secret of exactly that payload,
\* so recomputing it over the payload returned gives the signature returned
\* and over a payload that differs in a field gives another value.
C12_Token ==
    [][\A r \in Reqs :
        Accepts(r) =>
            /\ req'[r].res.payload =
                   <<req[r].license_key, req[r].lic[1].status, req[r].lic[1].expires_at, now>>
            /\ req'[r].res.signature = Hmac(LICENSE_SECRET, req'[r].res.payload)
            /\ \A p \in OtherPayloads(req'[r].res.payload) :
                   Hmac(LICENSE_SECRET, p) # req'[r].res.signature]_vars

\* a token was issued for a row with an expiry date, after the clock moved
C12_Witness ==
    \E r \in Reqs :
        /\ Accepted(r)
        /\ req[r].res.payload[3] # Null
        /\ req[r].res.payload[4] > 0
        /\ req[r].res.signature = Hmac(LICENSE_SECRET, req[r].res.payload)

\* two tokens issued for the same license_key, status and expires_at
SameInputs(r, q) ==
    /\ r # q
    /\ Accepted(r) /\ Accepted(q)
    /\ req[r].res.payload[1] = req[q].res.payload[1]
    /\ req[r].res.payload[2] = req[q].res.payload[2]
    /\ req[r].res.payload[3] = req[q].res.payload[3]

\* C13 as the spec states it: any two issuances for the same license_key,
\* status and expires_at carry different signatures, also when the clock did
\* not advance between them.
C13_AlwaysDistinct ==
    \A r, q \in Reqs :
        SameInputs(r, q) => req[r].res.signature # req[q].res.signature

\* C13 as the code has it: a token issued now for the same license_key,
\* status and expires_at as an earlier token differs from it in its signature
\* exactly when the clock has advanced since the earlier token was issued;
\* issued at the same clock value the two tokens are the same.
C13_DistinctWhenClockAdvanced ==
    [][\A r, q \in Reqs :
        (/\ Accepts(r)
         /\ Accepted(q)
         /\ req[q].license_key = req[r].license_key
         /\ req[q].lic[1].status = req[r].lic[1].status
         /\ req[q].lic[1].expires_at = req[r].lic[1].expires_at)
        => /\ req[q].res.payload[4] <= now
           /\ (req'[r].res.signature # req[q].res.signature)
                  <=> (req[q].res.payload[4] < now)]_vars

\* two tokens for the same inputs issued at different clock values, with
\* different signatures
C13_Witness ==
    \E r, q \in Reqs :
        /\ SameInputs(r, q)
        /\ req[r].res.payload[4] # req[q].res.payload[4]
        /\ req[r].res.signature # req[q].res.signature

\* C14: a process whose signing secret is absent from its environment never
\* answers a verification with valid=true and a signature.
C14_NoTokenWithoutSecret ==
    env = "" => \A r \in Reqs : ~(req[r].res.valid /\ req[r].res.signature # <<>>)

\* the roster and the liveness record license k has after the heartbeat b
\* received at time t
RosterAfter(b) == RosterOf(b.players)
StateAfter(t, b) ==
    [last_seen |-> t, players |-> Len(RosterOf(b.players)), uptime |-> b.uptime,
     version |-> b.version]

StatusOf(k) == lastRes.op = "status" /\ lastRes.key = k

\* C16: for a key whose last heartbeat was received at t0, the status read at
\* time t says online exactly when t - t0 < 30000 (online at t0 + 29999,
\* offline at t0 + 30000 and later); online or not, it carries the player
\* count, the uptime and the version of that heartbeat; the record stays
\* stored however old it is.
C16_OnlineWithinTtl ==
    \A k \in Servers :
        lastBeat[k] # Null =>
            /\ serverState[k] # Null
            /\ StatusOf(k) =>
                  /\ lastRes.body.online <=> (lastRes.at - lastBeat[k][1].at < 30000)
                  /\ lastRes.at - lastBeat[k][1].at = 29999 => lastRes.body.online
                  /\ lastRes.at - lastBeat[k][1].at >= 30000 => ~lastRes.body.online
                  /\ lastRes.body.players = Len(RosterAfter(lastBeat[k][1].body))
                  /\ lastRes.body.uptime = lastBeat[k][1].body.uptime
                  /\ lastRes.body.version = lastBeat[k][1].body.version
                  /\ lastRes.body.last_seen = Some(lastBeat[k][1].at)

\* a status read exactly 30000 ms after the last heartbeat answers offline
\* with that heartbeat's two players
C16_Witness ==
    \E k \in Servers :
        /\ StatusOf(k)
        /\ lastBeat[k] # Null
        /\ lastRes.at - lastBeat[k][1].at = 30000
        /\ ~lastRes.body.online
        /\ lastRes.body.players = 2

PlayersOf(k) == lastRes.op = "players" /\ lastRes.key = k

\* C18: the players read for a key is the roster of its most recent heartbeat,
\* whatever earlier heartbeats carried: the empty list when that heartbeat had
\* no roster, and the empty list for a key without heartbeat.
C18_PlayersOfLastHeartbeat ==
    \A k \in Servers :
        PlayersOf(k) =>
            /\ lastRes.body.success
            /\ lastRes.body.players =
                   IF lastBeat[k] = Null THEN <<>> ELSE RosterAfter(lastBeat[k][1].body)

\* the roster read is that of the second of two heartbeats for the key
C18_Witness ==
    \E k \in Servers :
        /\ PlayersOf(k)
        /\ lastRes.body.players = <<"p3">>
        /\ \A s \in HbSlots : hb[s] = [pc |-> "upsert", license_key |-> k]

\* the response just sent answers GET /api/server/logs/k
LogsReadOf(k) == lastRes.op = "logs" /\ lastRes.key = k

Min(a, b) == IF a < b THEN a ELSE b

\* C20: after n accepted entries for a key, the logs read for it are the
\* min(n, 300) entries sent last, the newest first; no key ever holds more
\* than 300 entries, and the 301st entry evicts the first.
C20_LogRing ==
    \A k \in Servers :
        /\ Len(LogsOf(serverLogs, k)) <= 300
        /\ LogsReadOf(k) =>
              /\ lastRes.body.success
              /\ Len(lastRes.body.data) = Min(logged[k], 300)
              /\ \A i \in 1..Len(lastRes.body.data) :
                     lastRes.body.data[i] = LogItem(0, logged[k] - i + 1)

\* the logs are read after 301 entries: 300 come back, the 301st first and the
\* second last
C20_Witness ==
    \E k \in Servers :
        /\ LogsReadOf(k)
        /\ logged[k] = 301
        /\ Len(lastRes.body.data) = 300
        /\ lastRes.body.data[1].message = 301
        /\ lastRes.body.data[300].message = 2

\* the ban entries held for a key: the code keeps a ban only as the pending
\* action of type "ban" that the dashboard sent for the key's license
BanEntries(k) == SelectSeq(PendingOf(actionQueue, k), LAMBDA a : a.type = "ban")

IsPrefix(a, b) == Len(a) <= Len(b) /\ SubSeq(b, 1, Len(a)) = a

\* C19: the bans recorded for a key are append-only: a step adds entries at
\* the end of the key's list, in the order the bans are made, and never takes
\* an entry away, so that n bans leave n entries to read.
C19_BansAppendOnly ==
    [][\A k \in Servers : IsPrefix(BanEntries(k), BanEntries(k)')]_vars

\* this step answers a poll for the pending actions of k
Polls(k) == lastRes'.op = "actions" /\ lastRes'.key = k

\* the response just sent answers a poll for the pending actions of k
PolledOf(k) == lastRes.op = "actions" /\ lastRes.key = k

\* C21: a poll returns the pending actions of the key in the order they were
\* pushed and leaves its queue empty; between polls new actions go behind the
\* pending ones; a poll that directly follows a poll of the same key returns
\* the empty list.
C21_DrainFifo ==
    [][\A k \in Servers :
        IF Polls(k)
        THEN /\ lastRes'.body.actions = PendingOf(actionQueue, k)
             /\ PendingOf(actionQueue', k) = <<>>
             /\ PolledOf(k) => lastRes'.body.actions = <<>>
        ELSE IsPrefix(PendingOf(actionQueue, k), PendingOf(actionQueue', k))]_vars

\* three actions pushed in the order sent come back from one poll in that
\* order and the queue is empty
C21_Witness ==
    \E k \in Servers :
        /\ PolledOf(k)
        /\ PayloadsOf(lastRes.body.actions) = <<1, 2, 3>>
        /\ PendingOf(actionQueue, k) = <<>>

\* how many times x occurs in the list
Count(list, x) == Cardinality({i \in 1..Len(list) : list[i] = x})

\* C23: over all that polls have returned, no action occurs twice: not in
\* two polls and not twice in one.
C23_AtMostOnce ==
    \A n \in 1..pushed : Count(delivered, n) <= 1

\* a poll has returned one action after an earlier poll returned another
C23_Witness ==
    \E k \in Servers :
        /\ PolledOf(k)
        /\ Len(lastRes.body.actions) = 1
        /\ Len(delivered) = 2

\* how many times the action of payload n is pending, over all queues
Pending(n) ==
    Cardinality({<<k, i>> \in Servers \X (1..pushed) :
                    /\ i <= Len(PendingOf(actionQueue, k))
                    /\ PendingOf(actionQueue, k)[i].payload = n})

\* C25: with dashboard requests that wait for their lookup while polls and
\* other requests run, an action that was pushed is either pending once or was
\* returned once, never both and never neither, and an action that was not
\* pushed is nowhere; a poll returns all that is pending for its key, so a
\* pushed action is returned by the first poll of its key after the push.
C25_NoLossNoDuplicate ==
    [][/\ \A n \in 1..pushed' :
              Pending(n)' + Count(delivered', n) = IF n \in appended' THEN 1 ELSE 0
       /\ \A k \in Servers :
              Polls(k) =>
                  /\ delivered' = delivered \o PayloadsOf(PendingOf(actionQueue, k))
                  /\ PayloadsOf(lastRes'.body.actions) = PayloadsOf(PendingOf(actionQueue, k))]_vars

\* an action sent before a poll was pushed after it: it is pending while an
\* action sent later has been returned
C25_Witness ==
    \E k \in Servers, n \in 1..pushed :
        /\ Pending(n) = 1
        /\ PendingOf(actionQueue, k) # <<>>
        /\ PendingOf(actionQueue, k)[1].payload = n
        /\ \E i \in 1..Len(delivered) : delivered[i] > n

\* this step pushes an action on the queue of k
Pushes(k) ==
    /\ lastRes'.op = "action"
    /\ lastRes'.body.success
    /\ lastRes'.key = k

\* C22: no queue ever holds more than 200 actions; the push that finds 200
\* pending leaves 151: the 150 that were pushed last, in order, and behind
\* them the new action.
C22_QueueCap ==
    [][\A k \in Servers :
        /\ Len(PendingOf(actionQueue', k)) <= 200
        /\ (Pushes(k) /\ Len(PendingOf(actionQueue, k)) = 200) =>
              /\ Len(PendingOf(actionQueue', k)) = 151
              /\ SubSeq(PendingOf(actionQueue', k), 1, 150) =
                     SubSeq(PendingOf(actionQueue, k), 51, 200)
              /\ PendingOf(actionQueue', k)[151].payload = pushed
              /\ PendingOf(actionQueue', k)[151].payload \notin
                     {PendingOf(actionQueue, k)[i].payload : i \in 1..200}]_vars

\* the 201st action has been pushed: 151 are pending, from the 51st to the 201st
C22_Witness ==
    \E k \in Servers :
        /\ pushed = 201
        /\ Len(PendingOf(actionQueue, k)) = 151
        /\ PendingOf(actionQueue, k)[1].payload = 51
        /\ PendingOf(actionQueue, k)[151].payload = 201

\* what the process holds in memory for license k
Slice(k) == <<serverState[k], livePlayersByLicense[k], serverLogs[k], actionQueue[k]>>

\* this step is, or completes, an operation on license k: a heartbeat that
\* names k, a read, log entry or poll for k, or the push of an action sent with
\* the token of the customer of k
Names(k) ==
    \/ \E s \in HbSlots : hb[s].pc = "idle" /\ hb'[s] = [pc |-> "upsert", license_key |-> k]
    \/ /\ lastRes'.op \in {"status", "players", "log", "logs", "actions"}
       /\ lastRes'.key = k
    \/ \E s \in ActSlots :
          /\ act[s].pc = "lookup" /\ act'[s].pc = "idle"
          /\ Customer(act[s].token) = Some([license_key |-> k])

\* C24: a step changes the liveness record, the roster, the log or the action
\* queue of a license only when it is an operation on that license; an
\* operation on another license leaves all four as they are.
C24_KeyIsolation ==
    [][\A k \in Servers : Slice(k)' # Slice(k) => Names(k)]_vars

\* one license has a liveness record, a roster, a log entry and a pending
\* action, the other has nothing
C24_Witness ==
    \E k, j \in Servers :
        /\ serverState[k] # Null
        /\ livePlayersByLicense[k] # Null
        /\ LogsOf(serverLogs, k) # <<>>
        /\ PendingOf(actionQueue, k) # <<>>
        /\ Slice(j) = <<Null, Null, Null, Null>>

\* nothing in memory changes in this step and no call to the store is begun
NothingStored ==
    /\ \A k \in Servers : Slice(k)' = Slice(k)
    /\ hb' = hb
    /\ act' = act

\* this step answers a request with a failure
Refuses(op) == lastRes'.op = op /\ ~lastRes'.body.success /\ lastRes'.body.http \in {400, 401}

\* C27: a heartbeat without license_key, a log entry without license_key or
\* without message, and a dashboard action without token or without type are
\* answered with a failure, change nothing in memory and begin no call to the
\* store; a dashboard action whose token is no customer's is answered with a
\* failure that carries no id, and pushes nothing.
C27_RejectedInputNoEffect ==
    [][/\ (lastRes'.op = "heartbeat" /\ lastRes'.key = "") =>
              Refuses("heartbeat") /\ NothingStored
       /\ (lastRes'.op = "log" /\ (lastRes'.key = "" \/ lastRes'.message = Null)) =>
              Refuses("log") /\ NothingStored
       /\ (lastRes'.op = "action" /\ (lastRes'.token = "" \/ lastRes'.type = "")) =>
              Refuses("action") /\ NothingStored
       /\ \A s \in ActSlots :
              (act[s].pc = "lookup" /\ act'[s].pc = "idle" /\ act[s].token \notin {"u1", "u2"}) =>
                  /\ ~lastRes'.body.success
                  /\ "id" \notin DOMAIN lastRes'.body
                  /\ actionQueue' = actionQueue]_vars

\* a log body without message was refused when the key already had an entry
C27_Witness ==
    /\ lastRes.op = "log"
    /\ lastRes.key # ""
    /\ lastRes.message = Null
    /\ ~lastRes.body.success
    /\ LogsOf(serverLogs, lastRes.key) # <<>>

\* what a status read for k would say now
Online(k) == GetStatus(serverState, k, now).online

\* the times a heartbeat can be received at
BeatTimes == {a + b * (TTL - 1) : a \in 0..MaxTicks, b \in 0..MaxTicks}

\* C26: while time passes, a license whose last heartbeat came at t is in the
\* end reported offline, unless a later heartbeat comes first; at every time
\* it is reported online exactly when less than 30000 ms have passed since its
\* last heartbeat, so that once offline it stays offline for as long as no
\* heartbeat comes and the heartbeat that comes makes it online again.
C26_TtlLiveness ==
    \A k \in Servers :
        /\ \A t \in BeatTimes :
              (lastBeat[k] # Null /\ lastBeat[k][1].at = t)
                  ~> (~Online(k) \/ lastBeat[k][1].at # t)
        /\ [](Online(k) <=> (lastBeat[k] # Null /\ now - lastBeat[k][1].at < 30000))

\* a license went offline, then a heartbeat came and later it is offline again
C26_Witness ==
    \E k \in Servers :
        /\ lastBeat[k] # Null
        /\ lastBeat[k][1].at >= TTL
        /\ ~Online(k)
        /\ lastRes.op = "status" /\ lastRes.key = k /\ ~lastRes.body.online

\* C28: in every state the player count a status read of k would report is
\* the length of the roster a players read of k would return, also while a
\* heartbeat of k awaits its upsert.
C28_CountIsRosterLength ==
    \A k \in Servers :
        GetStatus(serverState, k, now).players = Len(GetPlayers(livePlayersByLicense, k))

\* two heartbeats of a key await their upsert and the key has the one player
\* of the later one
C28_Witness ==
    \E k \in Servers :
        /\ \A s \in HbSlots : hb[s] = [pc |-> "upsert", license_key |-> k]
        /\ GetPlayers(livePlayersByLicense, k) = <<"p3">>
        /\ GetStatus(serverState, k, now).players = 1

\* the response just sent tells a heartbeat of k that it failed on the upsert
UpsertFailed(k) ==
    /\ lastRes.op = "heartbeat"
    /\ lastRes.key = k
    /\ lastRes.body = HeartbeatResponse(500, FALSE)

\* C29: when the upsert of a heartbeat of k throws and the heartbeat is
\* answered success=false, the roster and the record of k are still those of
\* the last heartbeat received for k, and a status read says online at every
\* time less than 30000 ms after that heartbeat was received.
C29_EffectDespiteFailure ==
    \A k \in Servers :
        UpsertFailed(k) =>
            /\ lastBeat[k] # Null
            /\ livePlayersByLicense[k] = Some(RosterAfter(lastBeat[k][1].body))
            /\ serverState[k] = Some(StateAfter(lastBeat[k][1].at, lastBeat[k][1].body))
            /\ GetStatus(serverState, k, lastBeat[k][1].at).online
            /\ GetStatus(serverState, k, lastBeat[k][1].at + 29999).online
            /\ ~GetStatus(serverState, k, lastBeat[k][1].at + 30000).online
            /\ now - lastBeat[k][1].at < 30000 => Online(k)

\* the failure is answered some time after the heartbeat came, the key is
\* still online and has the heartbeat's two players
C29_Witness ==
    \E k \in Servers :
        /\ UpsertFailed(k)
        /\ now > lastBeat[k][1].at
        /\ Online(k)
        /\ GetPlayers(livePlayersByLicense, k) = <<"p1", "p2">>

\* request r omitted hwid and read an ACTIVE row that had not expired
NoHwidOnLiveRow(r) ==
    /\ Done(r)
    /\ ReadRow(r)
    /\ req[r].hwid = ""
    /\ req[r].lic[1].status = "ACTIVE"
    /\ ~ExpiredWhenChecked(r)

\* C30: a verification that omits hwid and reads an ACTIVE, unexpired row is
\* answered valid=true with a signed token, whether the row is bound to a
\* device or not, and sends no hwid update, so the row's hwid stays as it is.
C30_NoHwidAccepted ==
    \A r \in Reqs :
        NoHwidOnLiveRow(r) =>
            /\ req[r].res.valid
            /\ req[r].res.signature # <<>>
            /\ req[r].bind = "none"

\* the step answers request r valid=false with a reason the verification
\* policy gives (a missing key, no row, the row's status, expiry, another device)
Rejects(r) ==
    /\ req[r].pc # "done" /\ req'[r].pc = "done"
    /\ ~req'[r].res.valid
    /\ req'[r].res.reason \in
           {"MISSING_KEY", "NOT_FOUND", "EXPIRED", "HWID_MISMATCH"} \cup (Statuses \ {"ACTIVE"})

\* the status and the expiry of a row of the store
PolicyOf(row) == IF row = Null THEN Null ELSE <<row[1].status, row[1].expires_at>>

\* C31: a verification rejected for a missing key, a missing row, a status
\* other than ACTIVE, expiry or another device has sent no write to the store
\* (at most the read), and the step that rejects leaves every row as it was;
\* no step of any verification, accepted or rejected, changes the status or
\* the expires_at of a row.
C31_RejectWritesNothing ==
    [][/\ \A r \in Reqs :
              Rejects(r) =>
                  /\ licenses' = licenses
                  /\ req'[r].calls <= 1
                  /\ req'[r].bind = "none"
                  /\ req'[r].seenWrite = "none"
       /\ req' # req => \A k \in Keys : PolicyOf(licenses'[k]) = PolicyOf(licenses[k])]_vars

\* a request from another device was rejected, and the row still carries the
\* device and the last_seen an earlier accepted verification wrote
C31_Witness ==
    \E r \in Reqs, k \in Keys :
        /\ Done(r) /\ req[r].license_key = k
        /\ req[r].res.reason = "HWID_MISMATCH"
        /\ licenses[k] # Null
        /\ licenses[k][1].hwid \notin {"", req[r].hwid}
        /\ licenses[k][1].last_seen # Null

\* the step in which the read of request r resolves
Reads(r) == req[r].pc = "read" /\ req'[r].pc # "read" /\ req'[r].read = "ok"

\* C32: the row a verification works on has the status and the expires_at the
\* store held for its key when the read resolved; every token issued carries
\* the request's key, the status ACTIVE and the expires_at of that row, and
\* that row's status was ACTIVE.
C32_TokenOfActiveRow ==
    [][\A r \in Reqs :
           /\ (Reads(r) /\ req'[r].lic # Null) =>
                  /\ licenses[req[r].license_key] # Null
                  /\ <<req'[r].lic[1].status, req'[r].lic[1].expires_at>>
                         = PolicyOf(licenses[req[r].license_key])
           /\ Accepts(r) =>
                  /\ req[r].lic # Null
                  /\ req[r].lic[1].status = "ACTIVE"
                  /\ req'[r].res.payload[1] = req[r].license_key
                  /\ req'[r].res.payload[2] = "ACTIVE"
                  /\ req'[r].res.payload[3] = req[r].lic[1].expires_at]_vars

\* a token with an expiry was issued for a key whose row has since been set to
\* another status
C32_Witness ==
    \E r \in Reqs :
        /\ Accepted(r)
        /\ req[r].res.payload[3] # Null
        /\ licenses[req[r].license_key][1].status # "ACTIVE"

\* the last toggle of key k that completed set a status other than ACTIVE
Revoked(k) == k \in Keys /\ licenses[k] # Null /\ licenses[k][1].status # "ACTIVE"

\* the step in which the read of request r resolves or rejects
ReadEnds(r) == req[r].pc = "read" /\ req'[r].pc # "read"

\* C33: while the last completed toggle of a key (admin or customer) has set a
\* status other than ACTIVE, every verification whose read ends is answered
\* valid=false in the same step and has sent no write, and the reason is that
\* status whenever the read returned the row; a verification answered
\* valid=true while the key is revoked read the row when its status was
\* ACTIVE, before the toggle.
C33_RevocationHolds ==
    [][\A r \in Reqs :
           /\ (ReadEnds(r) /\ Revoked(req[r].license_key)) =>
                  /\ req'[r].pc = "done"
                  /\ ~req'[r].res.valid
                  /\ req'[r].calls = 1
                  /\ req'[r].read = "ok" =>
                         req'[r].res.reason = licenses[req[r].license_key][1].status
           /\ (Accepts(r) /\ Revoked(req[r].license_key)) =>
                  /\ req[r].lic # Null
                  /\ req[r].lic[1].status = "ACTIVE"]_vars

\* the key is revoked; one verification was rejected with the status set, and
\* another, whose read came before the toggle, was answered valid=true
C33_Witness ==
    \E r, q \in Reqs :
        /\ Revoked(req[r].license_key)
        /\ Done(r) /\ ReadRow(r)
        /\ req[r].res.reason = licenses[req[r].license_key][1].status
        /\ req[q].license_key = req[r].license_key
        /\ Accepted(q)
        /\ q < r

\* the inserts of creation request c that have ended
InsertsOf(c) == create[c].inserts

\* the inserts creation request c has sent
SentBy(c) == Len(InsertsOf(c)) + (IF create[c].pc = "insert" THEN 1 ELSE 0)

\* the first n inserts of creation request c all ended with a duplicate key
AllDuplicate(c, n) == \A j \in 1..n : InsertsOf(c)[j] = "duplicate"

\* C34: a creation request sends at most 5 inserts; every insert before its
\* last ended with a duplicate key; it answers the created license as soon as
\* an insert succeeds and DB_ERROR as soon as an insert ends with another
\* error, sending no further insert; it answers
\* FAILED_TO_GENERATE_UNIQUE_KEY exactly when 5 inserts ended with a duplicate
\* key; a request without the admin key is answered UNAUTHORIZED and sends no
\* insert.
C34_RetryLoop ==
    \A c \in CreateSlots :
        LET n == Len(InsertsOf(c)) IN
        /\ SentBy(c) <= 5
        /\ AllDuplicate(c, n - 1)
        /\ create[c].pc = "insert" => AllDuplicate(c, n)
        /\ (n > 0 /\ InsertsOf(c)[n] = "ok") =>
               /\ create[c].pc = "done"
               /\ create[c].res = Created(create[c].license_key, NewRow(create[c].expires_at))
               /\ licenses[create[c].license_key] # Null
        /\ (n > 0 /\ InsertsOf(c)[n] = "error") =>
               /\ create[c].pc = "done"
               /\ create[c].res = DbError
        /\ (create[c].pc = "done" /\ create[c].res = FailedToGenerate)
               <=> (n = 5 /\ AllDuplicate(c, 5))
        /\ (create[c].pc = "done" /\ ~create[c].authorized) =>
               /\ create[c].res = Unauthorized
               /\ n = 0
        /\ (create[c].pc # "idle" /\ create[c].res = Unauthorized) => SentBy(c) = 0

\* one request was answered the license it created, a later one gave up after
\* five duplicate keys, and one was answered DB_ERROR after a duplicate key
C34_Witness ==
    \E c, d, e \in CreateSlots :
        /\ create[c].pc = "done" /\ create[c].res.ok /\ Len(InsertsOf(c)) = 1
        /\ create[d].res = FailedToGenerate /\ Len(InsertsOf(d)) = 5
        /\ create[e].res = DbError /\ Len(InsertsOf(e)) = 2

====
